---- MODULE Spec2Model ----
(***************************************************************************)
(* A model of the modbus-core codec: the PDU codec (codec/mod.rs), the     *)
(* RTU and TCP framers (codec/rtu/mod.rs, codec/tcp/mod.rs) and the        *)
(* client / server facades.  Byte slices are sequences of 0..255; Rust     *)
(* indices are 0-based, so buf[i] is written At(buf, i) and buf[a..b] is   *)
(* Slice(buf, a, b).  A Result is <<"Ok", v>> or <<"Err", e>>, an Option   *)
(* is <<"None">> or <<"Some", v>>, and a panic (index out of bounds,       *)
(* unreachable!(), arithmetic overflow with overflow checks) is the        *)
(* outcome <<"Panic">>.  The library is modelled with the `rtu` and `tcp`  *)
(* features enabled.                                                       *)
(***************************************************************************)
EXTENDS Integers, Sequences, FiniteSets, TLC

\* ------------------------------------------------------------------------
\* Rust values
\* ------------------------------------------------------------------------
Ok(v) == <<"Ok", v>>

Err(e) == <<"Err", e>>

Panic == <<"Panic">>

None == <<"None">>

Some(v) == <<"Some", v>>

IsOk(r) == r[1] = "Ok"

IsErr(r) == r[1] = "Err"

IsPanic(r) == r[1] = "Panic"

IsSome(o) == o[1] = "Some"

IsOkSome(r) == IsOk(r) /\ IsSome(r[2])

IsOkNone(r) == IsOk(r) /\ ~IsSome(r[2])

\* buf[i]
At(buf, i) == buf[i + 1]

\* &buf[a..b]
Slice(buf, a, b) == SubSeq(buf, a + 1, b)

\* &buf[a..]
SliceFrom(buf, a) == SubSeq(buf, a + 1, Len(buf))

\* BigEndian::read_u16(&buf[i..])
read_u16(buf, i) == At(buf, i) * 256 + At(buf, i + 1)

\* BigEndian::write_u16(&mut buf[i..], v)
write_u16(buf, i, v) == [buf EXCEPT ![i + 1] = v \div 256, ![i + 2] = v % 256]

\* buf[at + idx] = src[idx] for every idx < n
copy_into(buf, at, src, n) ==
    [k \in 1..Len(buf) |-> IF k > at /\ k <= at + n THEN src[k - at] ELSE buf[k]]

div_ceil(a, b) == (a + b - 1) \div b

RECURSIVE BitXor(_, _)
BitXor(a, b) ==
    IF a = 0 THEN b
    ELSE IF b = 0 THEN a
    ELSE ((a + b) % 2) + 2 * BitXor(a \div 2, b \div 2)

\* ------------------------------------------------------------------------
\* frame/mod.rs: function codes and exceptions
\* ------------------------------------------------------------------------
\* Cargo feature `rtu`: the RTU-only function codes exist.
RtuFeature == TRUE

FunctionCode_new(value) ==
    CASE value = 1 -> <<"ReadCoils">>
      [] value = 2 -> <<"ReadDiscreteInputs">>
      [] value = 5 -> <<"WriteSingleCoil">>
      [] value = 6 -> <<"WriteSingleRegister">>
      [] value = 3 -> <<"ReadHoldingRegisters">>
      [] value = 4 -> <<"ReadInputRegisters">>
      [] value = 15 -> <<"WriteMultipleCoils">>
      [] value = 16 -> <<"WriteMultipleRegisters">>
      [] value = 22 -> <<"MaskWriteRegister">>
      [] value = 23 -> <<"ReadWriteMultipleRegisters">>
      [] RtuFeature /\ value = 7 -> <<"ReadExceptionStatus">>
      [] RtuFeature /\ value = 8 -> <<"Diagnostics">>
      [] RtuFeature /\ value = 11 -> <<"GetCommEventCounter">>
      [] RtuFeature /\ value = 12 -> <<"GetCommEventLog">>
      [] RtuFeature /\ value = 17 -> <<"ReportServerId">>
      [] OTHER -> <<"Custom", value>>

\* A value that swaps the codes of the two register reads.
FunctionCode_value_swapped(fc) ==
    CASE fc[1] = "ReadCoils" -> 1
      [] fc[1] = "ReadDiscreteInputs" -> 2
      [] fc[1] = "WriteSingleCoil" -> 5
      [] fc[1] = "WriteSingleRegister" -> 6
      [] fc[1] = "ReadHoldingRegisters" -> 4
      [] fc[1] = "ReadInputRegisters" -> 3
      [] fc[1] = "WriteMultipleCoils" -> 15
      [] fc[1] = "WriteMultipleRegisters" -> 16
      [] fc[1] = "MaskWriteRegister" -> 22
      [] fc[1] = "ReadWriteMultipleRegisters" -> 23
      [] fc[1] = "ReadExceptionStatus" -> 7
      [] fc[1] = "Diagnostics" -> 8
      [] fc[1] = "GetCommEventCounter" -> 11
      [] fc[1] = "GetCommEventLog" -> 12
      [] fc[1] = "ReportServerId" -> 17
      [] fc[1] = "Custom" -> fc[2]

FunctionCode_value(fc) ==
    CASE fc[1] = "ReadCoils" -> 1
      [] fc[1] = "ReadDiscreteInputs" -> 2
      [] fc[1] = "WriteSingleCoil" -> 5
      [] fc[1] = "WriteSingleRegister" -> 6
      [] fc[1] = "ReadHoldingRegisters" -> 3
      [] fc[1] = "ReadInputRegisters" -> 4
      [] fc[1] = "WriteMultipleCoils" -> 15
      [] fc[1] = "WriteMultipleRegisters" -> 16
      [] fc[1] = "MaskWriteRegister" -> 22
      [] fc[1] = "ReadWriteMultipleRegisters" -> 23
      [] fc[1] = "ReadExceptionStatus" -> 7
      [] fc[1] = "Diagnostics" -> 8
      [] fc[1] = "GetCommEventCounter" -> 11
      [] fc[1] = "GetCommEventLog" -> 12
      [] fc[1] = "ReportServerId" -> 17
      [] fc[1] = "Custom" -> fc[2]

\* impl From<Request> for FunctionCode / impl From<Response> for FunctionCode
FunctionCode_from(r) == IF r[1] = "Custom" THEN r[2] ELSE <<r[1]>>

\* impl TryFrom<u8> for Exception; an Exception is held as its discriminant
Exception_try_from(code) ==
    IF code \in {1, 2, 3, 4, 5, 6, 8, 10, 11} THEN Ok(code)
    ELSE Err(<<"ExceptionCode", code>>)

\* ------------------------------------------------------------------------
\* frame/coils.rs, frame/data.rs: payload views [data, quantity]
\* ------------------------------------------------------------------------
bool_to_u16_coil(state) == IF state THEN 65280 ELSE 0

u16_coil_to_bool(coil) ==
    CASE coil = 65280 -> Ok(TRUE)
      [] coil = 0 -> Ok(FALSE)
      [] OTHER -> Err(<<"CoilValue", coil>>)

\* A packed length that rounds down.
CoilQuantity_packed_len_floor(quantity) == quantity \div 8

CoilQuantity_packed_len(quantity) == div_ceil(quantity, 8)

Coils_len(coils) == coils.quantity

Coils_packed_len(coils) == CoilQuantity_packed_len(coils.quantity)

Data_len(words) == words.quantity

\* Coils::copy_to: buf[idx] = self.data[idx] for idx < packed_len; an index
\* past either slice panics.
Coils_copy_to(coils, buf, at) ==
    LET n == Coils_packed_len(coils) IN
    IF n > Len(coils.data) \/ at + n > Len(buf) THEN Panic
    ELSE Ok(copy_into(buf, at, coils.data, n))

\* Data::copy_to: buf[idx] = self.data[idx] for idx < quantity * 2
Data_copy_to(words, buf, at) ==
    LET cnt == words.quantity * 2 IN
    IF cnt > Len(words.data) \/ at + cnt > Len(buf) THEN Panic
    ELSE Ok(copy_into(buf, at, words.data, cnt))

\* ------------------------------------------------------------------------
\* frame/mod.rs: pdu_len.  A Request / Response is a tuple whose first
\* element is the variant name; the RTU-only variants without an encode
\* path (todo!() / unimplemented!()) are not part of the domain, except
\* Response::ReadExceptionStatus.
\* ------------------------------------------------------------------------
Request_pdu_len(r) ==
    CASE r[1] \in {"ReadCoils", "ReadDiscreteInputs", "ReadInputRegisters",
                   "ReadHoldingRegisters", "WriteSingleRegister",
                   "WriteSingleCoil"} -> 5
      [] r[1] = "WriteMultipleCoils" -> 6 + Coils_packed_len(r[3])
      [] r[1] = "WriteMultipleRegisters" -> 6 + Len(r[3].data)
      [] r[1] = "ReadWriteMultipleRegisters" -> 10 + Len(r[5].data)
      [] r[1] = "Custom" -> 1 + Len(r[3])

Response_pdu_len(r) ==
    CASE r[1] \in {"ReadCoils", "ReadDiscreteInputs"} -> 2 + Coils_packed_len(r[2])
      [] r[1] = "WriteSingleCoil" -> 5
      [] r[1] \in {"WriteMultipleCoils", "WriteMultipleRegisters",
                   "WriteSingleRegister"} -> 5
      [] r[1] \in {"ReadInputRegisters", "ReadHoldingRegisters",
                   "ReadWriteMultipleRegisters"} -> 2 + Data_len(r[2]) * 2
      [] r[1] = "Custom" -> 1 + Len(r[3])
      [] r[1] = "ReadExceptionStatus" -> 2

\* ------------------------------------------------------------------------
\* codec/mod.rs: Encode.  An encoder returns [res, buf]: the Result and the
\* destination buffer afterwards.  oc = the build has overflow checks and
\* debug assertions (a debug build).
\* ------------------------------------------------------------------------
BufferSize == <<"BufferSize">>

\* `n as u8 * 2`
u8_times_2(n, oc) ==
    IF (n % 256) * 2 > 255 THEN (IF oc THEN Panic ELSE Ok(((n % 256) * 2) % 256))
    ELSE Ok((n % 256) * 2)

Request_encode(r, buf, oc) ==
    IF Len(buf) < Request_pdu_len(r) THEN [res |-> Err(BufferSize), buf |-> buf]
    ELSE
    LET b0 == [buf EXCEPT ![1] = FunctionCode_value(FunctionCode_from(r))]
        done(b) == [res |-> Ok(Request_pdu_len(r)), buf |-> b]
        panic == [res |-> Panic, buf |-> b0]
    IN
    CASE r[1] \in {"ReadCoils", "ReadDiscreteInputs", "ReadInputRegisters",
                   "ReadHoldingRegisters", "WriteSingleRegister"} ->
            done(write_u16(write_u16(b0, 1, r[2]), 3, r[3]))
      [] r[1] = "WriteSingleCoil" ->
            done(write_u16(write_u16(b0, 1, r[2]), 3, bool_to_u16_coil(r[3])))
      [] r[1] = "WriteMultipleCoils" ->
            LET b3 == write_u16(write_u16(b0, 1, r[2]), 3, Coils_len(r[3]) % 65536)
                b5 == [b3 EXCEPT ![6] = Coils_packed_len(r[3]) % 256]
                cp == Coils_copy_to(r[3], b5, 6)
            IN IF IsPanic(cp) THEN panic ELSE done(cp[2])
      [] r[1] = "WriteMultipleRegisters" ->
            LET b3 == write_u16(write_u16(b0, 1, r[2]), 3, Data_len(r[3]) % 65536)
                bc == u8_times_2(Data_len(r[3]), oc)
            IN IF IsPanic(bc) THEN panic
               ELSE done(copy_into([b3 EXCEPT ![6] = bc[2]], 6, r[3].data, Len(r[3].data)))
      [] r[1] = "ReadWriteMultipleRegisters" ->
            LET b7 == write_u16(write_u16(write_u16(write_u16(b0, 1, r[2]), 3, r[3]),
                                          5, r[4]), 7, Data_len(r[5]) % 65536)
                bc == u8_times_2(Data_len(r[5]), oc)
            IN IF IsPanic(bc) THEN panic
               ELSE done(copy_into([b7 EXCEPT ![10] = bc[2]], 10, r[5].data, Len(r[5].data)))
      [] r[1] = "Custom" ->
            done(copy_into(b0, 1, r[3], Len(r[3])))

Response_encode(r, buf, oc) ==
    IF Len(buf) < Response_pdu_len(r) THEN [res |-> Err(BufferSize), buf |-> buf]
    ELSE
    LET b0 == [buf EXCEPT ![1] = FunctionCode_value(FunctionCode_from(r))]
        done(b) == [res |-> Ok(Response_pdu_len(r)), buf |-> b]
        panic == [res |-> Panic, buf |-> b0]
    IN
    CASE r[1] \in {"ReadCoils", "ReadDiscreteInputs"} ->
            LET cp == Coils_copy_to(r[2], [b0 EXCEPT ![2] = Coils_packed_len(r[2]) % 256], 2)
            IN IF IsPanic(cp) THEN panic ELSE done(cp[2])
      [] r[1] \in {"ReadInputRegisters", "ReadHoldingRegisters",
                   "ReadWriteMultipleRegisters"} ->
            LET cp == Data_copy_to(r[2], [b0 EXCEPT ![2] = (Data_len(r[2]) * 2) % 256], 2)
            IN IF IsPanic(cp) THEN panic ELSE done(cp[2])
      [] r[1] = "WriteSingleCoil" ->
            done(write_u16(b0, 1, r[2]))
      [] r[1] \in {"WriteMultipleCoils", "WriteMultipleRegisters",
                   "WriteSingleRegister"} ->
            done(write_u16(write_u16(b0, 1, r[2]), 3, r[3]))
      [] r[1] = "Custom" ->
            done(copy_into(b0, 1, r[3], Len(r[3])))
      [] r[1] = "ReadExceptionStatus" ->
            done([b0 EXCEPT ![2] = r[2]])

\* A conversion that leaves the high bit of the function code clear.
ExceptionResponse_into_plain(ex, oc) ==
    Ok(<<FunctionCode_value(ex.function), ex.exception>>)

\* impl From<ExceptionResponse> for [u8; 2]
ExceptionResponse_into(ex, oc) ==
    LET fn_code == FunctionCode_value(ex.function) IN
    IF fn_code >= 128
    THEN (IF oc THEN Panic ELSE Ok(<<(fn_code + 128) % 256, ex.exception>>))
    ELSE Ok(<<fn_code + 128, ex.exception>>)

ExceptionResponse_encode(ex, buf, oc) ==
    IF Len(buf) = 0 THEN [res |-> Err(BufferSize), buf |-> buf]
    ELSE LET d == ExceptionResponse_into(ex, oc) IN
         IF IsPanic(d) \/ Len(buf) < 2 THEN [res |-> Panic, buf |-> buf]
         ELSE [res |-> Ok(2), buf |-> [buf EXCEPT ![1] = d[2][1], ![2] = d[2][2]]]

RequestPdu_encode(pdu, buf, oc) == Request_encode(pdu, buf, oc)

\* A ResponsePdu is Ok(Response) or Err(ExceptionResponse).
ResponsePdu_encode(pdu, buf, oc) ==
    IF Len(buf) = 0 THEN [res |-> Err(BufferSize), buf |-> buf]
    ELSE IF IsOk(pdu) THEN Response_encode(pdu[2], buf, oc)
    ELSE ExceptionResponse_encode(pdu[2], buf, oc)

\* ------------------------------------------------------------------------
\* codec/mod.rs: TryFrom<&[u8]>
\* ------------------------------------------------------------------------
min_request_pdu_len(fn_code) ==
    CASE fn_code[1] \in {"ReadCoils", "ReadDiscreteInputs", "ReadInputRegisters",
                         "WriteSingleCoil", "ReadHoldingRegisters",
                         "WriteSingleRegister"} -> 5
      [] fn_code[1] \in {"WriteMultipleCoils", "WriteMultipleRegisters"} -> 6
      [] fn_code[1] = "ReadWriteMultipleRegisters" -> 10
      [] OTHER -> 1

min_response_pdu_len(fn_code) ==
    CASE fn_code[1] \in {"ReadCoils", "ReadDiscreteInputs", "ReadInputRegisters",
                         "ReadHoldingRegisters", "ReadWriteMultipleRegisters"} -> 2
      [] fn_code[1] = "WriteSingleCoil" -> 3
      [] fn_code[1] \in {"WriteMultipleCoils", "WriteSingleRegister",
                         "WriteMultipleRegisters"} -> 5
      [] OTHER -> 1

ExceptionResponse_try_from(bytes) ==
    IF Len(bytes) = 0 THEN Err(BufferSize)
    ELSE LET fn_err_code == At(bytes, 0) IN
    IF fn_err_code < 128 THEN Err(<<"ExceptionFnCode", fn_err_code>>)
    ELSE IF Len(bytes) < 2 THEN Panic
    ELSE LET exception == Exception_try_from(At(bytes, 1)) IN
         IF IsErr(exception) THEN exception
         ELSE Ok([function |-> FunctionCode_new(fn_err_code - 128),
                  exception |-> exception[2]])

Request_try_from(bytes) ==
    IF Len(bytes) = 0 THEN Err(BufferSize)
    ELSE
    LET fn_code == At(bytes, 0)
        F == FunctionCode_new(fn_code)
    IN
    IF Len(bytes) < min_request_pdu_len(F) THEN Err(BufferSize)
    ELSE
    CASE F[1] \in {"ReadCoils", "ReadDiscreteInputs", "ReadInputRegisters",
                   "ReadHoldingRegisters", "WriteSingleRegister"} ->
            Ok(<<F[1], read_u16(bytes, 1), read_u16(bytes, 3)>>)
      [] F[1] = "WriteSingleCoil" ->
            LET c == u16_coil_to_bool(read_u16(bytes, 3)) IN
            IF IsErr(c) THEN c ELSE Ok(<<"WriteSingleCoil", read_u16(bytes, 1), c[2]>>)
      [] F[1] = "WriteMultipleCoils" ->
            LET byte_count == At(bytes, 5) IN
            IF Len(bytes) < 6 + byte_count THEN Err(<<"ByteCount", byte_count>>)
            ELSE Ok(<<"WriteMultipleCoils", read_u16(bytes, 1),
                      [data |-> SliceFrom(bytes, 6), quantity |-> read_u16(bytes, 3)]>>)
      [] F[1] = "WriteMultipleRegisters" ->
            LET byte_count == At(bytes, 5) IN
            IF Len(bytes) < 6 + byte_count THEN Err(<<"ByteCount", byte_count>>)
            ELSE Ok(<<"WriteMultipleRegisters", read_u16(bytes, 1),
                      [data |-> Slice(bytes, 6, 6 + byte_count),
                       quantity |-> read_u16(bytes, 3)]>>)
      [] F[1] = "ReadWriteMultipleRegisters" ->
            LET write_count == At(bytes, 9) IN
            IF Len(bytes) < 10 + write_count THEN Err(<<"ByteCount", write_count>>)
            ELSE Ok(<<"ReadWriteMultipleRegisters", read_u16(bytes, 1),
                      read_u16(bytes, 3), read_u16(bytes, 5),
                      [data |-> Slice(bytes, 10, 10 + write_count),
                       quantity |-> read_u16(bytes, 7)]>>)
      [] OTHER ->
            IF fn_code < 128
            THEN Ok(<<"Custom", <<"Custom", fn_code>>, SliceFrom(bytes, 1)>>)
            ELSE Err(<<"FnCode", fn_code>>)

Response_try_from(bytes) ==
    IF Len(bytes) = 0 THEN Err(BufferSize)
    ELSE
    LET fn_code == At(bytes, 0)
        F == FunctionCode_new(fn_code)
    IN
    IF Len(bytes) < min_response_pdu_len(F) THEN Err(BufferSize)
    ELSE
    CASE F[1] \in {"ReadCoils", "ReadDiscreteInputs"} ->
            LET byte_count == At(bytes, 1) IN
            IF byte_count + 2 > Len(bytes) THEN Err(BufferSize)
            ELSE Ok(<<F[1], [data |-> Slice(bytes, 2, byte_count + 2),
                             quantity |-> byte_count * 8]>>)
      [] F[1] = "WriteSingleCoil" ->
            Ok(<<"WriteSingleCoil", read_u16(bytes, 1)>>)
      [] F[1] \in {"WriteMultipleCoils", "WriteSingleRegister",
                   "WriteMultipleRegisters"} ->
            Ok(<<F[1], read_u16(bytes, 1), read_u16(bytes, 3)>>)
      [] F[1] \in {"ReadInputRegisters", "ReadHoldingRegisters",
                   "ReadWriteMultipleRegisters"} ->
            LET byte_count == At(bytes, 1) IN
            IF byte_count + 2 > Len(bytes) THEN Err(BufferSize)
            ELSE Ok(<<F[1], [data |-> Slice(bytes, 2, 2 + byte_count),
                             quantity |-> byte_count \div 2]>>)
      [] OTHER ->
            Ok(<<"Custom", F, SliceFrom(bytes, 1)>>)

\* ------------------------------------------------------------------------
\* codec/rtu/mod.rs: the RTU framer
\* ------------------------------------------------------------------------
MAX_FRAME_LEN == 256

\* one pass of `for _ in 0..8`
crc16_shift(crc) ==
    IF crc % 2 # 0 THEN BitXor(crc \div 2, 40961) ELSE crc \div 2

crc16_byte(crc, x) ==
    crc16_shift(crc16_shift(crc16_shift(crc16_shift(
    crc16_shift(crc16_shift(crc16_shift(crc16_shift(BitXor(crc, x)))))))))

\* `for x in data`, from the n-th byte on; crc is a u16
RECURSIVE crc16_fold(_, _, _)
crc16_fold(data, n, crc) ==
    IF n > Len(data) \/ crc \notin 0..65535 THEN crc
    ELSE crc16_fold(data, n + 1, crc16_byte(crc, data[n]))

\* crc.rotate_right(8)
rotate_right_8(crc) == (crc % 256) * 256 + crc \div 256

crc16(data) == rotate_right_8(crc16_fold(data, 1, 65535))

\* A DecodedFrame is [slave, pdu].
\* A frame check that accepts every trailing CRC.
rtu_verified_unchecked(adu_buf, expected_crc, actual_crc) ==
    Ok(Some([slave |-> At(adu_buf, 0), pdu |-> SliceFrom(adu_buf, 1)]))

rtu_verified(adu_buf, expected_crc, actual_crc) ==
    IF expected_crc # actual_crc THEN Err(<<"Crc", expected_crc, actual_crc>>)
    ELSE Ok(Some([slave |-> At(adu_buf, 0), pdu |-> SliceFrom(adu_buf, 1)]))

rtu_extract_frame(buf, pdu_len) ==
    IF Len(buf) = 0 THEN Err(BufferSize)
    ELSE IF Len(buf) >= 1 + pdu_len + 2
    THEN rtu_verified(Slice(buf, 0, 1 + pdu_len), read_u16(buf, 1 + pdu_len),
                      crc16(Slice(buf, 0, 1 + pdu_len)))
    ELSE Ok(None)

rtu_request_pdu_len(adu_buf) ==
    IF Len(adu_buf) < 2 THEN Ok(None)
    ELSE
    LET fn_code == At(adu_buf, 1) IN
    CASE fn_code \in 1..6 -> Ok(Some(5))
      [] fn_code \in {7, 11, 12, 17} -> Ok(Some(1))
      [] fn_code \in {15, 16} ->
            IF Len(adu_buf) > 4 THEN Ok(Some(6 + At(adu_buf, 4))) ELSE Ok(None)
      [] fn_code = 22 -> Ok(Some(7))
      [] fn_code = 24 -> Ok(Some(3))
      [] fn_code = 23 ->
            IF Len(adu_buf) > 10 THEN Ok(Some(10 + At(adu_buf, 10))) ELSE Ok(None)
      [] OTHER -> Err(<<"FnCode", fn_code>>)

rtu_response_pdu_len(adu_buf) ==
    IF Len(adu_buf) < 2 THEN Ok(None)
    ELSE
    LET fn_code == At(adu_buf, 1) IN
    CASE fn_code \in 1..4 \/ fn_code \in {12, 23} ->
            IF Len(adu_buf) > 2 THEN Ok(Some(2 + At(adu_buf, 2))) ELSE Ok(None)
      [] fn_code \in {5, 6, 11, 15, 16} -> Ok(Some(5))
      [] fn_code = 7 \/ fn_code \in 129..171 -> Ok(Some(2))
      [] fn_code = 22 -> Ok(Some(7))
      [] fn_code = 24 ->
            IF Len(adu_buf) > 3 THEN Ok(Some(3 + read_u16(adu_buf, 2))) ELSE Ok(None)
      [] OTHER -> Err(<<"FnCode", fn_code>>)

\* One pass of `loop` in decode at drop_cnt, up to (not including) the
\* or_else: the length prediction and the extraction.  A decoded result is
\* <<frame, [start, size]>>.
rtu_pdu_len(decoder_type, raw_frame) ==
    IF decoder_type = "Request" THEN rtu_request_pdu_len(raw_frame)
    ELSE rtu_response_pdu_len(raw_frame)

\* A location counted from the start of raw_frame instead of buf.
rtu_located_relative(x, drop_cnt, pdu_len) ==
    IF IsOkSome(x) THEN Ok(Some(<<x[2][2], [start |-> 0, size |-> pdu_len + 3]>>))
    ELSE x

\* .map(|x| x.map(|res| (res, FrameLocation { start: drop_cnt, size: pdu_len + 3 })))
rtu_located(x, drop_cnt, pdu_len) ==
    IF IsOkSome(x) THEN Ok(Some(<<x[2][2], [start |-> drop_cnt, size |-> pdu_len + 3]>>))
    ELSE x

\* .and_then(|pdu_len| ...)
rtu_and_then(raw_frame, drop_cnt, pdu_len) ==
    IF IsErr(pdu_len) THEN pdu_len
    ELSE IF ~IsSome(pdu_len[2]) THEN Ok(None)
    ELSE rtu_located(rtu_extract_frame(raw_frame, pdu_len[2][2]), drop_cnt, pdu_len[2][2])

rtu_decode_pass(decoder_type, buf, drop_cnt) ==
    rtu_and_then(SliceFrom(buf, drop_cnt), drop_cnt,
                 rtu_pdu_len(decoder_type, SliceFrom(buf, drop_cnt)))

\* A loop that gives up one pass early.
rtu_decode_retry_early(decoder_type, buf, drop_cnt) ==
    /\ drop_cnt + 1 < Len(buf)
    /\ IsErr(rtu_decode_pass(decoder_type, buf, drop_cnt))
    /\ drop_cnt + 2 < MAX_FRAME_LEN

\* The pass at drop_cnt ends with `drop_cnt += 1; retry = true`.
rtu_decode_retry(decoder_type, buf, drop_cnt) ==
    /\ drop_cnt + 1 < Len(buf)
    /\ IsErr(rtu_decode_pass(decoder_type, buf, drop_cnt))
    /\ drop_cnt + 1 < MAX_FRAME_LEN

\* The value of drop_cnt in the pass that returns: the first one that does
\* not retry (the pass at MAX_FRAME_LEN - 1 never retries).
rtu_decode_drop_cnt(decoder_type, buf) ==
    CHOOSE d \in 0..(MAX_FRAME_LEN - 1) :
        /\ ~rtu_decode_retry(decoder_type, buf, d)
        /\ \A e \in 0..(d - 1) : rtu_decode_retry(decoder_type, buf, e)

\* the pass that returns
rtu_decode_return(decoder_type, buf, drop_cnt) ==
    IF drop_cnt + 1 >= Len(buf) THEN Ok(None)
    ELSE rtu_decode_pass(decoder_type, buf, drop_cnt)

rtu_decode(decoder_type, buf) ==
    IF Len(buf) = 0 THEN Err(BufferSize)
    ELSE rtu_decode_return(decoder_type, buf, rtu_decode_drop_cnt(decoder_type, buf))

\* ------------------------------------------------------------------------
\* codec/tcp/mod.rs: the TCP framer
\* ------------------------------------------------------------------------
TCP_MAX_FRAME_LEN == 256

\* A DecodedFrame is [transaction_id, unit_id, pdu].
\* An extraction that checks the length field before the protocol id.
tcp_extract_frame_length_first(buf, pdu_len) ==
    IF Len(buf) = 0 THEN Err(BufferSize)
    ELSE IF Len(buf) < 7 + pdu_len THEN Ok(None)
    ELSE IF read_u16(buf, 4) # pdu_len + 1
    THEN Err(<<"LengthMismatch", read_u16(buf, 4), pdu_len + 1>>)
    ELSE IF read_u16(buf, 2) # 0 THEN Err(<<"ProtocolNotModbus", read_u16(buf, 2)>>)
    ELSE Ok(Some([transaction_id |-> read_u16(buf, 0),
                  unit_id |-> At(buf, 6),
                  pdu |-> Slice(buf, 7, 7 + pdu_len)]))

tcp_extract_frame(buf, pdu_len) ==
    IF Len(buf) = 0 THEN Err(BufferSize)
    ELSE
    LET adu_len == 7 + pdu_len IN
    IF Len(buf) >= adu_len
    THEN LET protocol_id == read_u16(buf, 2)
             m_length == read_u16(buf, 4)
         IN IF protocol_id # 0 THEN Err(<<"ProtocolNotModbus", protocol_id>>)
            ELSE IF m_length # pdu_len + 1
            THEN Err(<<"LengthMismatch", m_length, pdu_len + 1>>)
            ELSE Ok(Some([transaction_id |-> read_u16(buf, 0),
                          unit_id |-> At(buf, 6),
                          pdu |-> Slice(buf, 7, adu_len)]))
    ELSE Ok(None)

tcp_request_pdu_len(adu_buf) ==
    IF Len(adu_buf) < 8 THEN Ok(None)
    ELSE
    LET fn_code == At(adu_buf, 7) IN
    CASE fn_code \in 1..6 -> Ok(Some(5))
      [] fn_code \in {7, 11, 12, 17} -> Ok(Some(1))
      [] fn_code \in {15, 16} ->
            IF Len(adu_buf) > 10
            THEN (IF Len(adu_buf) > 12 THEN Ok(Some(6 + At(adu_buf, 12))) ELSE Panic)
            ELSE Ok(None)
      [] fn_code = 22 -> Ok(Some(7))
      [] fn_code = 24 -> Ok(Some(3))
      [] fn_code = 23 ->
            IF Len(adu_buf) > 16 THEN Ok(Some(10 + At(adu_buf, 16))) ELSE Ok(None)
      [] OTHER -> Err(<<"FnCode", fn_code>>)

tcp_response_pdu_len(adu_buf) ==
    IF Len(adu_buf) < 8 THEN Ok(None)
    ELSE
    LET fn_code == At(adu_buf, 7) IN
    CASE fn_code \in 1..4 \/ fn_code \in {12, 23} ->
            IF Len(adu_buf) > 8 THEN Ok(Some(2 + At(adu_buf, 8))) ELSE Ok(None)
      [] fn_code \in {5, 6, 11, 15, 16} -> Ok(Some(5))
      [] fn_code = 7 \/ fn_code \in 129..171 -> Ok(Some(2))
      [] fn_code = 22 -> Ok(Some(7))
      [] fn_code = 24 ->
            IF Len(adu_buf) > 9 THEN Ok(Some(3 + read_u16(adu_buf, 8))) ELSE Ok(None)
      [] OTHER -> Err(<<"FnCode", fn_code>>)

\* One pass of `loop` in decode at drop_cnt, up to (not including) the
\* or_else: the length prediction and the extraction.  A decoded result is
\* <<frame, [start, size]>>.
tcp_pdu_len(decoder_type, raw_frame) ==
    IF decoder_type = "Request" THEN tcp_request_pdu_len(raw_frame)
    ELSE tcp_response_pdu_len(raw_frame)

\* .map(|x| x.map(|res| (res, FrameLocation { start: drop_cnt, size: pdu_len + 7 })))
tcp_located(x, drop_cnt, pdu_len) ==
    IF IsOkSome(x) THEN Ok(Some(<<x[2][2], [start |-> drop_cnt, size |-> pdu_len + 7]>>))
    ELSE x

\* .and_then(|pdu_len| ...); an index out of bounds in the length prediction
\* ends the call
tcp_and_then(raw_frame, drop_cnt, pdu_len) ==
    IF IsErr(pdu_len) \/ IsPanic(pdu_len) THEN pdu_len
    ELSE IF ~IsSome(pdu_len[2]) THEN Ok(None)
    ELSE tcp_located(tcp_extract_frame(raw_frame, pdu_len[2][2]), drop_cnt, pdu_len[2][2])

tcp_decode_pass(decoder_type, buf, drop_cnt) ==
    tcp_and_then(SliceFrom(buf, drop_cnt), drop_cnt,
                 tcp_pdu_len(decoder_type, SliceFrom(buf, drop_cnt)))

\* The pass at drop_cnt ends with `drop_cnt += 1; retry = true`.
tcp_decode_retry(decoder_type, buf, drop_cnt) ==
    /\ drop_cnt + 1 < Len(buf)
    /\ IsErr(tcp_decode_pass(decoder_type, buf, drop_cnt))
    /\ drop_cnt + 1 < TCP_MAX_FRAME_LEN

\* The value of drop_cnt in the pass that returns: the first one that does
\* not retry (the pass at TCP_MAX_FRAME_LEN - 1 never retries).
tcp_decode_drop_cnt(decoder_type, buf) ==
    CHOOSE d \in 0..(TCP_MAX_FRAME_LEN - 1) :
        /\ ~tcp_decode_retry(decoder_type, buf, d)
        /\ \A e \in 0..(d - 1) : tcp_decode_retry(decoder_type, buf, e)

\* the pass that returns
tcp_decode_return(decoder_type, buf, drop_cnt) ==
    IF drop_cnt + 1 >= Len(buf) THEN Ok(None)
    ELSE tcp_decode_pass(decoder_type, buf, drop_cnt)

tcp_decode(decoder_type, buf) ==
    IF Len(buf) = 0 THEN Err(BufferSize)
    ELSE tcp_decode_return(decoder_type, buf, tcp_decode_drop_cnt(decoder_type, buf))

\* ------------------------------------------------------------------------
\* codec/rtu/client.rs, codec/rtu/server.rs: the RTU facades.  An RTU ADU is
\* [hdr |-> [slave], pdu].
\* ------------------------------------------------------------------------
\* ExceptionResponse::try_from(pdu).map(Err).or_else(|_| Response::try_from(pdu).map(Ok))
first_exception(er, r) ==
    IF IsPanic(er) THEN Panic
    ELSE IF IsOk(er) THEN Ok(Err(er[2]))
    ELSE IF IsOk(r) THEN Ok(Ok(r[2])) ELSE r

exception_or_response(pdu) ==
    first_exception(ExceptionResponse_try_from(pdu), Response_try_from(pdu))

\* Response::try_from(pdu).map(Ok).or_else(|_| ExceptionResponse::try_from(pdu).map(Err))
first_response(r, er) ==
    IF IsOk(r) THEN Ok(Ok(r[2]))
    ELSE IF IsOk(er) THEN Ok(Err(er[2])) ELSE er

response_or_exception(pdu) ==
    first_response(Response_try_from(pdu), ExceptionResponse_try_from(pdu))

\* .map_err(|_| unreachable!())
map_err_unreachable(r) == IF IsErr(r) THEN Panic ELSE r

\* An encoder tail that writes the CRC low byte first.
rtu_encode_tail_swapped(slave, buf, e) ==
    IF ~IsOk(e.res) THEN [res |-> e.res, buf |-> <<buf[1]>> \o e.buf]
    ELSE
    LET len == e.res[2]
        b0 == <<slave>> \o e.buf
    IN
    IF Len(buf) < len + 3 THEN [res |-> Err(BufferSize), buf |-> <<buf[1]>> \o e.buf]
    ELSE [res |-> Ok(len + 3),
          buf |-> write_u16(b0, len + 1, rotate_right_8(crc16(Slice(b0, 0, len + 1))))]

\* the tail shared by the RTU encoders, after pdu.encode(&mut buf[1..])
rtu_encode_tail(slave, buf, e) ==
    IF ~IsOk(e.res) THEN [res |-> e.res, buf |-> <<buf[1]>> \o e.buf]
    ELSE
    LET len == e.res[2]
        b0 == <<slave>> \o e.buf
    IN
    IF Len(buf) < len + 3 THEN [res |-> Err(BufferSize), buf |-> <<buf[1]>> \o e.buf]
    ELSE [res |-> Ok(len + 3), buf |-> write_u16(b0, len + 1, crc16(Slice(b0, 0, len + 1)))]

rtu_client_encode_request(adu, buf, oc) ==
    IF Len(buf) < 2 THEN [res |-> Err(BufferSize), buf |-> buf]
    ELSE rtu_encode_tail(adu.hdr.slave, buf, RequestPdu_encode(adu.pdu, SliceFrom(buf, 1), oc))

rtu_server_encode_response(adu, buf, oc) ==
    IF Len(buf) < 2 THEN [res |-> Err(BufferSize), buf |-> buf]
    ELSE rtu_encode_tail(adu.hdr.slave, buf, ResponsePdu_encode(adu.pdu, SliceFrom(buf, 1), oc))

\* .map(|pdu| Some(RequestAdu { hdr, pdu })), and the same for responses
rtu_adu(slave, pdu) ==
    IF IsOk(pdu) THEN Ok(Some([hdr |-> [slave |-> slave], pdu |-> pdu[2]])) ELSE pdu

\* decode(DecoderType::Request, buf).and_then(|frame| ...)
rtu_request_and_then(frame) ==
    IF ~IsOk(frame) THEN frame
    ELSE IF ~IsSome(frame[2]) THEN Ok(None)
    ELSE rtu_adu(frame[2][2][1].slave, Request_try_from(frame[2][2][1].pdu))

\* decode(DecoderType::Response, buf).and_then(|frame| ...)
rtu_response_and_then(frame) ==
    IF ~IsOk(frame) THEN frame
    ELSE IF ~IsSome(frame[2]) THEN Ok(None)
    ELSE rtu_adu(frame[2][2][1].slave, exception_or_response(frame[2][2][1].pdu))

\* In the facade decoders below, frame is what decode returns on buf.
rtu_server_decode_request_frame(buf, frame) ==
    IF Len(buf) = 0 THEN Ok(None)
    ELSE map_err_unreachable(rtu_request_and_then(frame))

rtu_server_decode_request(buf) ==
    rtu_server_decode_request_frame(buf, rtu_decode("Request", buf))

rtu_client_decode_response_frame(buf, frame) ==
    IF Len(buf) = 0 THEN Ok(None)
    ELSE map_err_unreachable(rtu_response_and_then(frame))

rtu_client_decode_response(buf) ==
    rtu_client_decode_response_frame(buf, rtu_decode("Response", buf))

\* ------------------------------------------------------------------------
\* codec/tcp/client.rs, codec/tcp/server.rs: the TCP facades.  A TCP ADU is
\* [hdr |-> [transaction_id, unit_id], pdu].
\* ------------------------------------------------------------------------
tcp_hdr(f) == [transaction_id |-> f.transaction_id, unit_id |-> f.unit_id]

\* encode_request after pdu.encode(&mut buf[7..]), whose outcome is e
tcp_client_encode_tail(hdr, buf, e, oc) ==
    LET b0 == Slice(buf, 0, 7) \o e.buf
        b2 == write_u16(write_u16(b0, 0, hdr.transaction_id), 2, 0)
    IN
    IF ~IsOk(e.res) THEN [res |-> e.res, buf |-> b0]
    ELSE IF Len(buf) < e.res[2] + 7 THEN [res |-> Err(BufferSize), buf |-> b0]
    ELSE IF 1 + (e.res[2] % 65536) > 65535 /\ oc THEN [res |-> Panic, buf |-> b2]
    ELSE [res |-> Ok(e.res[2] + 7),
          buf |-> [write_u16(b2, 4, (1 + (e.res[2] % 65536)) % 65536)
                     EXCEPT ![7] = hdr.unit_id]]

tcp_client_encode_request(adu, buf, oc) ==
    IF Len(buf) < 2 THEN [res |-> Err(BufferSize), buf |-> buf]
    ELSE IF Len(buf) < 7 THEN [res |-> Panic, buf |-> buf]
    ELSE tcp_client_encode_tail(adu.hdr, buf,
                                RequestPdu_encode(adu.pdu, SliceFrom(buf, 7), oc), oc)

\* the body shared by server::encode_response and server::encode_request;
\* e is the outcome of pdu.encode(&mut buf[7..]) on the buffer with the
\* header written
tcp_server_encode(hdr, buf, e) ==
    LET b0 == Slice([write_u16(write_u16(buf, 0, hdr.transaction_id), 2, 0)
                       EXCEPT ![7] = hdr.unit_id], 0, 7) \o e.buf
    IN
    IF ~IsOk(e.res) THEN [res |-> e.res, buf |-> b0]
    ELSE IF Len(buf) < e.res[2] + 7 THEN [res |-> Err(BufferSize), buf |-> b0]
    ELSE [res |-> Ok(e.res[2] + 7), buf |-> write_u16(b0, 4, (e.res[2] + 1) % 65536)]

tcp_server_encode_response(adu, buf, oc) ==
    IF Len(buf) < 7 THEN [res |-> Err(BufferSize), buf |-> buf]
    ELSE tcp_server_encode(adu.hdr, buf, ResponsePdu_encode(adu.pdu, SliceFrom(buf, 7), oc))

tcp_server_encode_request(adu, buf, oc) ==
    IF Len(buf) < 7 THEN [res |-> Err(BufferSize), buf |-> buf]
    ELSE tcp_server_encode(adu.hdr, buf, RequestPdu_encode(adu.pdu, SliceFrom(buf, 7), oc))

tcp_adu(hdr, pdu) ==
    IF IsOk(pdu) THEN Ok(Some([hdr |-> hdr, pdu |-> pdu[2]])) ELSE pdu

tcp_request_and_then(frame) ==
    IF ~IsOk(frame) THEN frame
    ELSE IF ~IsSome(frame[2]) THEN Ok(None)
    ELSE tcp_adu(tcp_hdr(frame[2][2][1]), Request_try_from(frame[2][2][1].pdu))

\* client::decode_response
tcp_exception_first_and_then(frame) ==
    IF ~IsOk(frame) THEN frame
    ELSE IF ~IsSome(frame[2]) THEN Ok(None)
    ELSE tcp_adu(tcp_hdr(frame[2][2][1]), exception_or_response(frame[2][2][1].pdu))

\* server::decode_response
tcp_response_first_and_then(frame) ==
    IF ~IsOk(frame) THEN frame
    ELSE IF ~IsSome(frame[2]) THEN Ok(None)
    ELSE tcp_adu(tcp_hdr(frame[2][2][1]), response_or_exception(frame[2][2][1].pdu))

tcp_server_decode_request_frame(buf, frame) ==
    IF Len(buf) = 0 THEN Ok(None) ELSE tcp_request_and_then(frame)

tcp_server_decode_request(buf) ==
    tcp_server_decode_request_frame(buf, tcp_decode("Request", buf))

tcp_server_decode_response_frame(buf, frame) ==
    IF Len(buf) = 0 THEN Err(BufferSize)
    ELSE map_err_unreachable(tcp_response_first_and_then(frame))

tcp_server_decode_response(buf) ==
    tcp_server_decode_response_frame(buf, tcp_decode("Response", buf))

tcp_client_decode_response_frame(buf, frame) ==
    IF Len(buf) = 0 THEN Ok(None)
    ELSE map_err_unreachable(tcp_exception_first_and_then(frame))

tcp_client_decode_response(buf) ==
    tcp_client_decode_response_frame(buf, tcp_decode("Response", buf))

\* ------------------------------------------------------------------------
\* The values the model draws its inputs from
\* ------------------------------------------------------------------------
\* capacity of the buffers the senders encode into
BufCap == 24

\* number of noise bytes that may precede a frame in the receive buffer
MaxNoise == 1

\* length of the noise burst that may precede a frame
BurstLen == 254

NoiseBytes == {0, 16}

\* a destination buffer: every byte holds 0xA5 from an earlier use
Buffer(n) == [i \in 1..n |-> 165]

View(data, quantity) == [data |-> data, quantity |-> quantity]

\* Requests with the payload views the public constructors and the decoder
\* produce: exactly sized views, and views over a larger target buffer.
Requests ==
    {<<"ReadCoils", 258, 3>>, <<"ReadDiscreteInputs", 0, 65535>>,
     <<"ReadInputRegisters", 258, 1>>, <<"ReadHoldingRegisters", 65535, 125>>,
     <<"WriteSingleRegister", 8738, 43981>>,
     <<"WriteSingleCoil", 4660, TRUE>>, <<"WriteSingleCoil", 0, FALSE>>,
     <<"WriteMultipleCoils", 13073, View(<<13>>, 4)>>,
     <<"WriteMultipleCoils", 0, View(<<>>, 0)>>,
     <<"WriteMultipleCoils", 258, View(<<255, 1>>, 9)>>,
     <<"WriteMultipleCoils", 258, View(<<1, 0>>, 2)>>,
     <<"WriteMultipleRegisters", 6, View(<<171, 205>>, 1)>>,
     <<"WriteMultipleRegisters", 6, View(<<>>, 0)>>,
     <<"WriteMultipleRegisters", 6, View(<<18, 52, 0, 0>>, 1)>>,
     <<"ReadWriteMultipleRegisters", 5, 51, 3, View(<<171, 205, 239, 18>>, 2)>>,
     <<"Custom", <<"Custom", 65>>, <<1, 2>>>>,
     <<"Custom", <<"Custom", 7>>, <<>>>>}

ExceptionResponses ==
    {[function |-> <<"ReadCoils">>, exception |-> 1],
     [function |-> <<"ReadWriteMultipleRegisters">>, exception |-> 11],
     [function |-> <<"Custom", 65>>, exception |-> 4]}

Responses ==
    {<<"ReadCoils", View(<<13>>, 4)>>, <<"ReadCoils", View(<<13>>, 8)>>,
     <<"ReadDiscreteInputs", View(<<>>, 0)>>,
     <<"ReadDiscreteInputs", View(<<255, 1, 0>>, 16)>>,
     <<"WriteSingleCoil", 51>>, <<"WriteSingleCoil", 65280>>,
     <<"WriteMultipleCoils", 13073, 5>>, <<"WriteMultipleRegisters", 6, 2>>,
     <<"WriteSingleRegister", 8738, 43981>>,
     <<"ReadInputRegisters", View(<<170, 0, 204, 187>>, 2)>>,
     <<"ReadHoldingRegisters", View(<<>>, 0)>>,
     <<"ReadHoldingRegisters", View(<<18, 52, 0, 0>>, 1)>>,
     <<"ReadHoldingRegisters", View(<<80, 248, 0, 0>>, 2)>>,
     <<"ReadWriteMultipleRegisters", View(<<18, 52>>, 1)>>,
     <<"Custom", <<"Custom", 65>>, <<1, 2>>>>,
     <<"ReadExceptionStatus", 129>>}

ResponsePdus == {Ok(r) : r \in Responses} \cup {Err(e) : e \in ExceptionResponses}

RtuHeaders == {[slave |-> 42], [slave |-> 16]}

TcpHeaders == {[transaction_id |-> 4660, unit_id |-> 18],
               [transaction_id |-> 65535, unit_id |-> 0]}

\* PDUs a peer that is not this library puts into a well-formed frame
PeerRequestPdus == {<<5, 18, 52, 18, 52>>, <<16, 0, 6, 0, 1, 5>>, <<6, 34, 34, 171, 205>>}

PeerResponsePdus == {<<129, 7>>, <<5, 0, 51, 255, 0>>, <<131, 2>>, <<65, 1, 2>>}

\* ------------------------------------------------------------------------
\* The link: a sender encodes an ADU into a buffer and writes the encoded
\* bytes to the line; the receiver appends every byte that arrives to its
\* receive buffer and runs its decoder on the buffer after each arrival.
\* ------------------------------------------------------------------------
VARIABLES
    op,      \* the operation that ran last
    sess,    \* transport, direction, and the encoder and decoder in use
    adu,     \* the ADU handed to the encoder, <<>> if none
    enc,     \* what the encoder returned
    frame,   \* the bytes written to the line
    rx,      \* the receive buffer
    nnoise,  \* number of bytes in rx that arrived before the frame
    fr,      \* what the framing layer's decode returns on rx
    dec      \* what the facade's decoder returns on rx

vars == <<op, sess, adu, enc, frame, rx, nnoise, fr, dec>>

NotRun == <<"NotRun">>

Session(transport, kind, encoder, decoder) ==
    [transport |-> transport, kind |-> kind, encoder |-> encoder, decoder |-> decoder]

Idle == Session("none", "none", "none", "none")

Init ==
    /\ op = "init"
    /\ sess = Idle
    /\ adu = <<>>
    /\ enc = NotRun
    /\ frame = <<>>
    /\ rx = <<>>
    /\ nnoise = 0
    /\ fr = NotRun
    /\ dec = NotRun

\* the framing layer's decode of the session
FramerDecode(s, buf) ==
    IF s.transport = "rtu" THEN rtu_decode(s.kind, buf) ELSE tcp_decode(s.kind, buf)

\* the facade the receiver of the session calls; decoded is what the
\* framing layer's decode returns on buf
FacadeDecode(s, buf, decoded) ==
    CASE s.decoder = "rtu::server::decode_request" ->
            rtu_server_decode_request_frame(buf, decoded)
      [] s.decoder = "rtu::client::decode_response" ->
            rtu_client_decode_response_frame(buf, decoded)
      [] s.decoder = "tcp::server::decode_request" ->
            tcp_server_decode_request_frame(buf, decoded)
      [] s.decoder = "tcp::server::decode_response" ->
            tcp_server_decode_response_frame(buf, decoded)
      [] s.decoder = "tcp::client::decode_response" ->
            tcp_client_decode_response_frame(buf, decoded)

\* the encoded bytes are &buf[..len] when the encoder returned Ok(len)
Encoded(e) == IF IsOk(e.res) THEN Slice(e.buf, 0, e.res[2]) ELSE <<>>

Send(name, s, a, e) ==
    /\ sess = Idle
    /\ op' = name
    /\ sess' = s
    /\ adu' = a
    /\ enc' = e.res
    /\ frame' = Encoded(e)
    /\ UNCHANGED <<rx, nnoise, fr, dec>>

RtuClientSend ==
    \E hdr \in RtuHeaders, pdu \in Requests, oc \in BOOLEAN :
        LET a == [hdr |-> hdr, pdu |-> pdu] IN
        Send("rtu::client::encode_request",
             Session("rtu", "Request", "rtu::client::encode_request",
                     "rtu::server::decode_request"),
             a, rtu_client_encode_request(a, Buffer(BufCap), oc))

RtuServerSend ==
    \E hdr \in RtuHeaders, pdu \in ResponsePdus, oc \in BOOLEAN :
        LET a == [hdr |-> hdr, pdu |-> pdu] IN
        Send("rtu::server::encode_response",
             Session("rtu", "Response", "rtu::server::encode_response",
                     "rtu::client::decode_response"),
             a, rtu_server_encode_response(a, Buffer(BufCap), oc))

TcpClientSend ==
    \E hdr \in TcpHeaders, pdu \in Requests, oc \in BOOLEAN :
        LET a == [hdr |-> hdr, pdu |-> pdu] IN
        Send("tcp::client::encode_request",
             Session("tcp", "Request", "tcp::client::encode_request",
                     "tcp::server::decode_request"),
             a, tcp_client_encode_request(a, Buffer(BufCap), oc))

TcpServerSendRequest ==
    \E hdr \in TcpHeaders, pdu \in Requests, oc \in BOOLEAN :
        LET a == [hdr |-> hdr, pdu |-> pdu] IN
        Send("tcp::server::encode_request",
             Session("tcp", "Request", "tcp::server::encode_request",
                     "tcp::server::decode_request"),
             a, tcp_server_encode_request(a, Buffer(BufCap), oc))

TcpServerSend ==
    \E hdr \in TcpHeaders, pdu \in ResponsePdus, oc \in BOOLEAN,
       decoder \in {"tcp::client::decode_response", "tcp::server::decode_response"} :
        LET a == [hdr |-> hdr, pdu |-> pdu] IN
        Send("tcp::server::encode_response",
             Session("tcp", "Response", "tcp::server::encode_response", decoder),
             a, tcp_server_encode_response(a, Buffer(BufCap), oc))

\* a well-formed RTU frame around a PDU: slave, PDU, CRC
RtuFrame(slave, pdu) ==
    LET b == <<slave>> \o pdu
        crc == crc16(b)
    IN b \o <<crc \div 256, crc % 256>>

\* a well-formed TCP frame around a PDU: MBAP header, PDU
TcpFrame(hdr, pdu) ==
    <<hdr.transaction_id \div 256, hdr.transaction_id % 256, 0, 0,
      (Len(pdu) + 1) \div 256, (Len(pdu) + 1) % 256, hdr.unit_id>> \o pdu

\* a peer that is not this library writes a well-formed frame to the line
PeerSend ==
    /\ sess = Idle
    /\ \E s \in {Session("rtu", "Request", "peer", "rtu::server::decode_request"),
                 Session("rtu", "Response", "peer", "rtu::client::decode_response"),
                 Session("tcp", "Request", "peer", "tcp::server::decode_request"),
                 Session("tcp", "Response", "peer", "tcp::server::decode_response"),
                 Session("tcp", "Response", "peer", "tcp::client::decode_response")} :
       \E pdu \in IF s.kind = "Request" THEN PeerRequestPdus ELSE PeerResponsePdus :
           /\ sess' = s
           /\ frame' = IF s.transport = "rtu"
                       THEN RtuFrame(42, pdu)
                       ELSE TcpFrame([transaction_id |-> 4660, unit_id |-> 18], pdu)
    /\ op' = "peer"
    /\ UNCHANGED <<adu, enc, rx, nnoise, fr, dec>>

\* the receiver's buffer grows and the receiver decodes it
Decoded(name, buf, decoded) ==
    /\ op' = name
    /\ rx' = buf
    /\ fr' = decoded
    /\ dec' = FacadeDecode(sess, buf, decoded)
    /\ UNCHANGED <<sess, adu, enc, frame>>

Arrive(name, buf) == Decoded(name, buf, FramerDecode(sess, buf))

\* the receiver decodes its buffer before any byte has arrived
Poll ==
    /\ sess # Idle
    /\ rx = <<>>
    /\ fr = NotRun
    /\ nnoise' = nnoise
    /\ Arrive("poll", rx)

\* a burst of line noise arrives before the first byte of the frame
Burst ==
    /\ sess # Idle
    /\ rx = <<>>
    /\ nnoise' = BurstLen
    /\ Arrive("burst", rx \o [i \in 1..BurstLen |-> 66])

\* a byte of line noise arrives before the first byte of the frame, after
\* the burst if there was one
Noise ==
    /\ sess # Idle
    /\ Len(rx) = nnoise
    /\ nnoise % BurstLen < MaxNoise
    /\ nnoise' = nnoise + 1
    /\ \E b \in NoiseBytes : Arrive("noise", rx \o <<b>>)

\* the next byte of the frame arrives
Receive ==
    /\ sess # Idle
    /\ Len(rx) - nnoise < Len(frame)
    /\ nnoise' = nnoise
    /\ Arrive("receive", rx \o <<frame[Len(rx) - nnoise + 1]>>)

Next ==
    \/ RtuClientSend
    \/ RtuServerSend
    \/ TcpClientSend
    \/ TcpServerSendRequest
    \/ TcpServerSend
    \/ PeerSend
    \/ Poll
    \/ Noise
    \/ Receive

Spec == Init /\ [][Next]_vars

\* the link with bursts of noise, which take the framers past MAX_FRAME_LEN:
\* the RTU encoders, and the peer's frames on both transports
NextResync ==
    \/ RtuClientSend
    \/ RtuServerSend
    \/ PeerSend
    \/ Burst
    \/ Noise
    \/ Receive

SpecResync == Init /\ [][NextResync]_vars

\* ------------------------------------------------------------------------
\* The PDU codec on its own: encode into a buffer of exactly pdu_len bytes
\* and parse the buffer back, and the parsers on arbitrary slices.
\* ------------------------------------------------------------------------
\* length of the slices handed to the parsers
MaxRawLen == 3

RawBytes == {0, 1, 5, 15, 22, 129, 255}

RawSlices == UNION {[1..n -> RawBytes] : n \in 0..MaxRawLen}

\* the requests of the link, Custom requests with other codes, and a write
\* of MaxWords registers
MaxWords == 128

PduRequests ==
    Requests \cup {<<"Custom", <<"ReadCoils">>, <<1, 2, 0, 3>>>>,
                   <<"Custom", <<"Custom", 200>>, <<1>>>>,
                   <<"WriteMultipleRegisters", 6,
                     View([i \in 1..(2 * MaxWords) |-> 0], MaxWords)>>}

PduResponses ==
    Responses \cup {<<"Custom", <<"ReadCoils">>, <<1, 13>>>>,
                    <<"Custom", <<"Custom", 200>>, <<1>>>>}

PduEncode(s, r, len, e) ==
    /\ sess = Idle
    /\ op' = "encode"
    /\ sess' = s
    /\ adu' = r
    /\ enc' = e.res
    /\ frame' = e.buf
    /\ UNCHANGED <<rx, nnoise, fr, dec>>

PduEncodeRequest ==
    \E r \in PduRequests, oc \in BOOLEAN :
        PduEncode(Session("pdu", "Request", "Request::encode", "Request::try_from"),
                  r, Request_pdu_len(r),
                  Request_encode(r, Buffer(Request_pdu_len(r)), oc))

PduEncodeResponse ==
    \E r \in PduResponses, oc \in BOOLEAN :
        PduEncode(Session("pdu", "Response", "Response::encode", "Response::try_from"),
                  r, Response_pdu_len(r),
                  Response_encode(r, Buffer(Response_pdu_len(r)), oc))

\* the buffer an encoder filled is parsed back
PduTryFrom ==
    /\ op = "encode"
    /\ IsOk(enc)
    /\ op' = "try_from"
    /\ rx' = frame
    /\ dec' = IF sess.kind = "Request" THEN Request_try_from(frame)
              ELSE Response_try_from(frame)
    /\ UNCHANGED <<sess, adu, enc, frame, nnoise, fr>>

\* a parser is handed a slice from the wire
Parse(decoder, bytes, r) ==
    /\ sess = Idle
    /\ op' = "parse"
    /\ sess' = Session("pdu", "none", "none", decoder)
    /\ rx' = bytes
    /\ dec' = r
    /\ UNCHANGED <<adu, enc, frame, nnoise, fr>>

RequestTryFrom ==
    \E bytes \in RawSlices : Parse("Request::try_from", bytes, Request_try_from(bytes))

ResponseTryFrom ==
    \E bytes \in RawSlices : Parse("Response::try_from", bytes, Response_try_from(bytes))

ExceptionResponseTryFrom ==
    \E bytes \in RawSlices :
        Parse("ExceptionResponse::try_from", bytes, ExceptionResponse_try_from(bytes))

NextPdu ==
    \/ PduEncodeRequest
    \/ PduEncodeResponse
    \/ PduTryFrom
    \/ RequestTryFrom
    \/ ResponseTryFrom
    \/ ExceptionResponseTryFrom

SpecPdu == Init /\ [][NextPdu]_vars

\* ------------------------------------------------------------------------
\* Properties of the link
\* ------------------------------------------------------------------------
OnLink == sess.transport \in {"rtu", "tcp"}

\* the frame on the line was written by one of the library's encoders
Encoded_by_library == sess.encoder \notin {"none", "peer"} /\ IsOk(enc)

\* the whole frame has arrived
Delivered == OnLink /\ Len(frame) > 0 /\ Len(rx) = nnoise + Len(frame)

\* a non-empty strict prefix of the frame has arrived, and nothing else
Partial == OnLink /\ nnoise = 0 /\ Len(rx) > 0 /\ Len(rx) < Len(frame)

DecodedFrame(r) == r[2][2][1]

FrameLocation(r) == r[2][2][2]

\* rtu::decode accepts the frame when it is alone in the buffer
DecodesAlone ==
    LET r == rtu_decode(sess.kind, frame) IN
    IsOkSome(r) /\ FrameLocation(r) = [start |-> 0, size |-> Len(frame)]

C2_RtuRequestRoundTrip ==
    (sess.encoder = "rtu::client::encode_request" /\ IsOk(enc) /\ Delivered /\ nnoise = 0)
    => dec = Ok(Some(adu))

FramedResponse(r) ==
    CASE r[1] \in {"ReadCoils", "ReadDiscreteInputs"} ->
            r[2].quantity = 8 * Len(r[2].data) /\ Len(r[2].data) <= 255
      [] r[1] \in {"ReadInputRegisters", "ReadHoldingRegisters",
                   "ReadWriteMultipleRegisters"} ->
            Len(r[2].data) = 2 * r[2].quantity /\ Len(r[2].data) <= 255
      [] r[1] \in {"WriteSingleCoil", "WriteMultipleCoils", "WriteSingleRegister",
                   "WriteMultipleRegisters"} -> TRUE
      [] OTHER -> FALSE

\* the exception responses the RTU framer frames: 0x81..=0xAB
FramedException(er) ==
    /\ FunctionCode_value(er.function) \in 1..43
    /\ FunctionCode_new(FunctionCode_value(er.function)) = er.function

FramedResponsePdu(pdu) ==
    IF IsOk(pdu) THEN FramedResponse(pdu[2]) ELSE FramedException(pdu[2])

C4_TcpRoundTrip ==
    (sess.transport = "tcp" /\ Encoded_by_library /\ Delivered /\ nnoise = 0)
    => dec = Ok(Some(adu))

\* C7: on every non-empty strict prefix of an encoded frame the framing
\* layer's decode and the facade's decoder return Ok(None).
C7_PartialFrame ==
    (Partial /\ Encoded_by_library) => (fr = Ok(None) /\ dec = Ok(None))

\* what parsing the PDU of the frame the framing layer found returns
ParsedPdu ==
    LET pdu == DecodedFrame(fr).pdu IN
    CASE sess.kind = "Request" -> Request_try_from(pdu)
      [] sess.decoder = "tcp::server::decode_response" -> response_or_exception(pdu)
      [] OTHER -> exception_or_response(pdu)

\* C8: when the framing layer accepts a frame and its PDU fails to parse,
\* the facade's decoder returns Err with the parser's error.
C8_PduErrorSurfaced ==
    (OnLink /\ IsOkSome(fr) /\ IsErr(ParsedPdu)) => dec = ParsedPdu

\* C9: when the framing layer gives up on a buffer longer than MAX_FRAME_LEN,
\* the facade's decoder returns Err with the framing layer's error.
C9_GiveUpSurfaced ==
    (OnLink /\ Len(rx) > MAX_FRAME_LEN /\ IsErr(fr)) => dec = fr

\* ------------------------------------------------------------------------
\* Properties of the PDU codec
\* ------------------------------------------------------------------------
\* C5: a request encoded into a buffer of exactly pdu_len bytes fills it and
\* parses back to the same request.
C5_RequestPduRoundTrip ==
    /\ (op = "encode" /\ sess.kind = "Request") => enc = Ok(Request_pdu_len(adu))
    /\ (op = "try_from" /\ sess.kind = "Request") => dec = Ok(adu)

\* a coil response with the quantity its packed bytes hold
WholeBytes(r) ==
    IF r[1] \in {"ReadCoils", "ReadDiscreteInputs"}
    THEN <<r[1], View(r[2].data, 8 * Len(r[2].data))>>
    ELSE r

\* C6: an encoded response parses back to the same response, but for the
\* coil quantity, which comes back as 8 * packed_len.
C6_ResponsePduRoundTrip ==
    (op = "try_from" /\ sess.kind = "Response") => dec = Ok(WholeBytes(adu))

\* the responses the parser gives back: a named variant other than the
\* RTU-only ones with an exactly sized view, or Custom with a code that has
\* no name
ParsedBackResponse(r) ==
    CASE r[1] \in {"ReadCoils", "ReadDiscreteInputs"} ->
            /\ r[2].quantity <= 8 * Len(r[2].data)
            /\ r[2].quantity > 8 * Len(r[2].data) - 8
            /\ Len(r[2].data) <= 255
      [] r[1] = "Custom" -> r[2][1] = "Custom" /\ FunctionCode_new(r[2][2]) = r[2]
      [] r[1] = "ReadExceptionStatus" -> FALSE
      [] OTHER -> FramedResponse(r)

\* C6, amended: the round trip, with the coil quantity coming back as
\* 8 * packed_len, holds for the named responses other than the RTU-only
\* ones whose payload view is exactly sized and at most 255 bytes, and for
\* Custom responses whose function code has no name.
C6_ParsedBackResponseRoundTrip ==
    (op = "try_from" /\ sess.kind = "Response" /\ ParsedBackResponse(adu))
    => dec = Ok(WholeBytes(adu))

C6_Witness ==
    /\ op = "try_from" /\ sess.kind = "Response"
    /\ adu[1] = "ReadCoils" /\ ParsedBackResponse(adu)
    /\ adu[2].quantity < 8 * Len(adu[2].data)
    /\ dec = Ok(WholeBytes(adu))

\* C10: the parsers return Ok or Err on every slice, and Err(BufferSize) on
\* the empty slice.
C10_ParsersNeverPanic ==
    op = "parse" => (~IsPanic(dec) /\ (rx = <<>> => dec = Err(BufferSize)))

\* ------------------------------------------------------------------------
\* The RTU line with a single-bit error: one bit of the encoded frame is
\* inverted on the line and the receiver decodes the frame it got.
\* ------------------------------------------------------------------------
\* the byte with bit j inverted
FlipBit(byte, j) ==
    IF (byte \div (2 ^ j)) % 2 = 1 THEN byte - 2 ^ j ELSE byte + 2 ^ j

\* the frame with bit (k mod 8) of byte (k div 8) inverted
Corrupted(f, k) == [f EXCEPT ![(k \div 8) + 1] = FlipBit(f[(k \div 8) + 1], k % 8)]

Corrupt ==
    /\ sess.transport = "rtu"
    /\ op \in {"rtu::client::encode_request", "rtu::server::encode_response"}
    /\ IsOk(enc)
    /\ nnoise' = 0
    /\ \E k \in 0..(8 * Len(frame) - 1) : Arrive("corrupt", Corrupted(frame, k))

NextCorrupt ==
    \/ RtuClientSend
    \/ RtuServerSend
    \/ Corrupt

SpecCorrupt == Init /\ [][NextCorrupt]_vars

\* the slave and the PDU bytes of the frame the encoder wrote
SentFrame == [slave |-> At(frame, 0), pdu |-> Slice(frame, 1, Len(frame) - 2)]

Encode(encoder, a, buf, oc) ==
    CASE encoder = "Request::encode" -> Request_encode(a, buf, oc)
      [] encoder = "Response::encode" -> Response_encode(a, buf, oc)
      [] encoder = "ResponsePdu::encode" -> ResponsePdu_encode(a, buf, oc)
      [] encoder = "ExceptionResponse::encode" -> ExceptionResponse_encode(a, buf, oc)
      [] encoder = "rtu::client::encode_request" -> rtu_client_encode_request(a, buf, oc)
      [] encoder = "rtu::server::encode_response" -> rtu_server_encode_response(a, buf, oc)
      [] encoder = "tcp::client::encode_request" -> tcp_client_encode_request(a, buf, oc)
      [] encoder = "tcp::server::encode_request" -> tcp_server_encode_request(a, buf, oc)
      [] encoder = "tcp::server::encode_response" -> tcp_server_encode_response(a, buf, oc)

Adus(hdrs, pdus) == {[hdr |-> h, pdu |-> p] : h \in hdrs, p \in pdus}

\* frame holds the whole destination buffer after the call
EncodeInto(transport, calls) ==
    /\ sess = Idle
    /\ \E c \in calls, n \in 0..BufCap, oc \in BOOLEAN :
        /\ sess' = Session(transport, "none", c[1], "none")
        /\ adu' = c[2]
        /\ enc' = Encode(c[1], c[2], Buffer(n), oc).res
        /\ frame' = Encode(c[1], c[2], Buffer(n), oc).buf
    /\ op' = "encode_into"
    /\ UNCHANGED <<rx, nnoise, fr, dec>>

PduEncodeInto ==
    EncodeInto("pdu", ({"Request::encode"} \X PduRequests)
                      \cup ({"Response::encode"} \X PduResponses)
                      \cup ({"ResponsePdu::encode"} \X ResponsePdus)
                      \cup ({"ExceptionResponse::encode"} \X ExceptionResponses))

RtuEncodeInto ==
    EncodeInto("rtu", ({"rtu::client::encode_request"} \X Adus(RtuHeaders, Requests))
                      \cup ({"rtu::server::encode_response"}
                            \X Adus(RtuHeaders, ResponsePdus)))

TcpEncodeInto ==
    EncodeInto("tcp", ({"tcp::client::encode_request", "tcp::server::encode_request"}
                            \X Adus(TcpHeaders, Requests))
                      \cup ({"tcp::server::encode_response"}
                            \X Adus(TcpHeaders, ResponsePdus)))

NextEncode ==
    \/ PduEncodeInto
    \/ RtuEncodeInto
    \/ TcpEncodeInto

SpecEncode == Init /\ [][NextEncode]_vars

\* pdu_len of what the encoder is handed; 2 for an exception response
EncodedPduLen(encoder, a) ==
    CASE encoder \in {"Request::encode", "rtu::client::encode_request",
                      "tcp::client::encode_request", "tcp::server::encode_request"} ->
            Request_pdu_len(IF encoder = "Request::encode" THEN a ELSE a.pdu)
      [] encoder = "Response::encode" -> Response_pdu_len(a)
      [] encoder = "ExceptionResponse::encode" -> 2
      [] OTHER ->
            LET pdu == IF encoder = "ResponsePdu::encode" THEN a ELSE a.pdu IN
            IF IsOk(pdu) THEN Response_pdu_len(pdu[2]) ELSE 2

\* the required size of the destination: pdu_len, pdu_len + 3, pdu_len + 7
RequiredSize ==
    EncodedPduLen(sess.encoder, adu)
    + (CASE sess.transport = "rtu" -> 3 [] sess.transport = "tcp" -> 7 [] OTHER -> 0)

\* C12: every encoder returns Err(BufferSize) on a destination shorter than
\* the required size, Ok(required size) on a destination of exactly the
\* required size, and panics on no destination length.
C12_EncodeBounds ==
    op = "encode_into"
    => /\ Len(frame) < RequiredSize => enc = Err(BufferSize)
       /\ Len(frame) = RequiredSize => enc = Ok(RequiredSize)
       /\ ~IsPanic(enc)

\* ------------------------------------------------------------------------
\* Properties of the response decoders
\* ------------------------------------------------------------------------
\* the PDU bytes and the header of the well-formed frame on the line
FramePdu ==
    IF sess.transport = "rtu" THEN Slice(frame, 1, Len(frame) - 2) ELSE SliceFrom(frame, 7)

FrameHdr ==
    IF sess.transport = "rtu" THEN [slave |-> At(frame, 0)]
    ELSE [transaction_id |-> read_u16(frame, 0), unit_id |-> At(frame, 6)]

\* the frame carries [f | 0x80, e], f in 0x01..=0x7F, e a defined exception
ExceptionFrame ==
    /\ OnLink
    /\ sess.kind = "Response"
    /\ Len(frame) > 0
    /\ Len(FramePdu) = 2
    /\ FramePdu[1] \in 129..255
    /\ IsOk(Exception_try_from(FramePdu[2]))

\* C13: every decode_response decodes a well-formed frame whose PDU is
\* [f | 0x80, e] as Ok(Some(ResponseAdu)) with the PDU
\* Err(ExceptionResponse{function: FunctionCode::new(f), exception: e}).
C13_ExceptionDecoded ==
    (ExceptionFrame /\ Delivered /\ nnoise = 0)
    => dec = Ok(Some([hdr |-> FrameHdr,
                      pdu |-> Err([function |-> FunctionCode_new(FramePdu[1] - 128),
                                   exception |-> FramePdu[2]])]))

\* ------------------------------------------------------------------------
\* Properties of the parsers
\* ------------------------------------------------------------------------
\* Request::try_from or Response::try_from returned a value
Parsed ==
    /\ op = "parse"
    /\ sess.decoder \in {"Request::try_from", "Response::try_from"}
    /\ IsOk(dec)

\* C14: every value Request::try_from or Response::try_from produces has a
\* function code whose byte value is below 0x80; a slice whose first byte is
\* 0x80 or above is rejected by both.
C14_NoExceptionCodedFunction ==
    Parsed => /\ FunctionCode_value(FunctionCode_from(dec[2])) < 128
              /\ At(rx, 0) < 128

\* ------------------------------------------------------------------------
\* frame/coils.rs, frame/data.rs: the constructors and accessors of the
\* payload views
\* ------------------------------------------------------------------------
\* pack_coils with coil_count coils already packed: the quantity and the
\* bytes afterwards.  `*byte |= value << (coil_count % 8)` sets a bit and
\* clears none; coil_count.checked_add(1) cannot fail on a slice.
RECURSIVE pack_coils_from(_, _, _)
pack_coils_from(coils, bytes, coil_count) ==
    IF coil_count = Len(coils) THEN [res |-> Ok(coil_count), bytes |-> bytes]
    ELSE IF coil_count \div 8 >= Len(bytes) THEN [res |-> Err(BufferSize), bytes |-> bytes]
    ELSE LET byte == At(bytes, coil_count \div 8)
             bit == 2 ^ (coil_count % 8)
             set == coils[coil_count + 1] /\ (byte \div bit) % 2 = 0
         IN pack_coils_from(coils,
                            [bytes EXCEPT ![coil_count \div 8 + 1] =
                                            IF set THEN byte + bit ELSE byte],
                            coil_count + 1)

pack_coils(coils, bytes) == pack_coils_from(coils, bytes, 0)

\* Coils::from_iter, and Coils::from_bools which forwards to it
Coils_from_iter(bools, target) ==
    IF IsErr(pack_coils(bools, target).res) THEN pack_coils(bools, target).res
    ELSE Ok(View(pack_coils(bools, target).bytes, pack_coils(bools, target).res[2]))

\* Coils::get: None, Some(coil), or a panic on an index past self.data
Coils_get(coils, idx) ==
    IF idx + 1 > coils.quantity THEN None
    ELSE IF (idx % 65536) \div 8 >= Len(coils.data) THEN Panic
    ELSE Some((At(coils.data, (idx % 65536) \div 8) \div (2 ^ (idx % 8))) % 2 > 0)

RECURSIVE write_words(_, _, _)
write_words(words, target, i) ==
    IF i = Len(words) THEN target
    ELSE write_words(words, write_u16(target, i * 2, words[i + 1]), i + 1)

Data_from_words(words, target) ==
    IF Len(words) * 2 > Len(target) \/ Len(words) = 0 THEN Err(BufferSize)
    ELSE Ok(View(write_words(words, target, 0), Len(words)))

\* impl TryFrom<&[u8]> for Data
Data_try_from(value) ==
    IF Len(value) = 0 \/ Len(value) % 2 # 0 THEN Err(<<"DataFromBufferError">>)
    ELSE Ok(View(value, Len(value) \div 2))

\* Data::get: None, Some(word), or a panic on a range past self.data
Data_get(words, idx) ==
    IF idx + 1 > words.quantity THEN None
    ELSE IF idx * 2 + 2 > Len(words.data) THEN Panic
    ELSE Some(read_u16(words.data, idx * 2))

\* ------------------------------------------------------------------------
\* The library's functions called on their own.  adu holds the argument,
\* frame the buffer or slice handed in, dec what the call returned.
\* ------------------------------------------------------------------------
\* number of coils handed to Coils::from_iter
MaxCoils == 9

\* length of the target buffer of Coils::from_iter; Data::from_words gets
\* targets of up to twice the length
MaxTarget == 2

Call(name, input, buf, result) ==
    /\ sess = Idle
    /\ op' = name
    /\ sess' = Session("call", "none", "none", name)
    /\ adu' = input
    /\ frame' = buf
    /\ dec' = result
    /\ UNCHANGED <<enc, rx, nnoise, fr>>

\* the target is zeroed, or holds 0xA5 from an earlier use
CoilsFromIter ==
    \E n \in 0..MaxCoils, m \in 0..MaxTarget :
        \E bools \in [1..n -> BOOLEAN], target \in {[i \in 1..m |-> 0], Buffer(m)} :
            Call("Coils::from_iter", bools, target, Coils_from_iter(bools, target))

DataFromWords ==
    \E n \in 0..2, m \in 0..(2 * MaxTarget) :
        \E words \in [1..n -> {43981, 18}] :
            Call("Data::from_words", words, Buffer(m), Data_from_words(words, Buffer(m)))

DataTryFrom ==
    \E value \in RawSlices : Call("Data::try_from", <<>>, value, Data_try_from(value))

\* Request::try_from and Response::try_from on PDUs with a payload, as a
\* peer may send them: the quantity field agrees with the payload or not
PayloadTryFrom ==
    \/ \E bytes \in {<<15, 0, 0, 0, 4, 1, 13>>, <<15, 0, 0, 0, 9, 1, 255>>,
                     <<15, 0, 0, 0, 4, 1, 13, 99>>, <<15, 0, 0, 255, 255, 0>>,
                     <<16, 0, 6, 0, 1, 2, 171, 205>>, <<16, 0, 6, 0, 2, 2, 171, 205>>,
                     <<16, 0, 6, 0, 0, 3, 171, 205, 1>>, <<16, 0, 6, 0, 1, 2, 171, 205, 99>>,
                     <<15, 0, 0, 0, 9, 2, 255>>, <<16, 0, 6, 0, 2, 4, 171, 205>>,
                     <<23, 0, 5, 0, 1, 0, 3, 0, 1, 2, 18, 52>>} :
           Parse("Request::try_from", bytes, Request_try_from(bytes))
    \/ \E bytes \in {<<1, 1, 13>>, <<2, 2, 255, 1>>, <<1, 0>>, <<3, 2, 18, 52>>,
                     <<3, 3, 18, 52, 86>>, <<4, 0>>, <<23, 4, 0, 1, 0, 2>>} :
           Parse("Response::try_from", bytes, Response_try_from(bytes))

FunctionCodeNew ==
    \E value \in 0..255 : Call("FunctionCode::new", value, <<>>, FunctionCode_new(value))

\* every function code: the named ones and Custom(c) for every byte c
FunctionCodeValue ==
    \E fc \in {FunctionCode_new(b) : b \in 0..255} \cup {<<"Custom", c>> : c \in 0..255} :
        Call("FunctionCode::value", fc, <<>>, <<"u8", FunctionCode_value(fc)>>)

\* an MBAP header with any protocol id and length field, followed by a PDU
\* and the start of the next frame; or a buffer shorter than a header
TcpExtractFrame ==
    \E pdu_len \in 0..MaxRawLen :
        \E buf \in {<<1, 2>> \o pid \o len \o <<1>> \o tail :
                        pid \in {<<0, 0>>, <<0, 1>>, <<1, 0>>},
                        len \in {<<0, 1>>, <<0, 2>>, <<0, 3>>, <<1, 2>>},
                        tail \in {<<>>, <<3>>, <<3, 4>>, <<3, 4, 137>>,
                                  <<3, 4, 137, 2>>}}
                   \cup {<<>>, <<1, 2, 0>>, <<1, 2, 0, 0, 0, 1>>} :
            Call("tcp::extract_frame", pdu_len, buf, tcp_extract_frame(buf, pdu_len))

NextCalls ==
    \/ TcpExtractFrame
    \/ CoilsFromIter
    \/ DataFromWords
    \/ DataTryFrom
    \/ PayloadTryFrom
    \/ FunctionCodeNew
    \/ FunctionCodeValue

SpecCalls == Init /\ [][NextCalls]_vars

\* ------------------------------------------------------------------------
\* Properties of the payload views
\* ------------------------------------------------------------------------
\* C15: Coils::from_bools / from_iter fail with BufferSize iff the target is
\* shorter than ceil(n / 8) bytes; otherwise, whatever the target held, the
\* view has len() = n and get(i) = bools[i] for every i < n, coil k*8+j
\* being bit j of byte k.
C15_CoilPacking ==
    op = "Coils::from_iter"
    => /\ (dec = Err(BufferSize)) <=> (Len(frame) < div_ceil(Len(adu), 8))
       /\ IsOk(dec) \/ dec = Err(BufferSize)
       /\ IsOk(dec) =>
            /\ Coils_len(dec[2]) = Len(adu)
            /\ \A i \in 0..(Len(adu) - 1) :
                /\ Coils_get(dec[2], i) = Some(adu[i + 1])
                /\ ((At(dec[2].data, i \div 8) \div (2 ^ (i % 8))) % 2 = 1) <=> adu[i + 1]

\* the Coils views the call returned: from the constructors, or as the
\* payload of a parsed Request / Response
CoilsViews ==
    IF ~IsOk(dec) THEN {}
    ELSE IF op = "Coils::from_iter" THEN {dec[2]}
    ELSE IF op = "parse" /\ sess.decoder = "Request::try_from"
            /\ dec[2][1] = "WriteMultipleCoils" THEN {dec[2][3]}
    ELSE IF op = "parse" /\ sess.decoder = "Response::try_from"
            /\ dec[2][1] \in {"ReadCoils", "ReadDiscreteInputs"} THEN {dec[2][2]}
    ELSE {}

\* the indices the accessors are probed with: the first ones, and the two
\* around the quantity
Probes(v) == 0..(MaxCoils + 8) \cup ({v.quantity - 1, v.quantity} \cap Nat)

\* C16: every Coils view from Coils::from_bools / from_iter or from a
\* parsed Request / Response has data.len() >= packed_len() =
\* ceil(quantity / 8), and get(i) is Some(bit) for i < quantity and None
\* for i >= quantity, without a panic.
C16_CoilsView ==
    \A v \in CoilsViews :
        /\ Coils_packed_len(v) = div_ceil(v.quantity, 8)
        /\ Len(v.data) >= Coils_packed_len(v)
        /\ \A i \in Probes(v) :
            IF i < v.quantity THEN IsSome(Coils_get(v, i)) ELSE Coils_get(v, i) = None

\* the Data views the call returned
DataViews ==
    IF ~IsOk(dec) THEN {}
    ELSE IF op \in {"Data::from_words", "Data::try_from"} THEN {dec[2]}
    ELSE IF op = "parse" /\ sess.decoder = "Request::try_from"
            /\ dec[2][1] = "WriteMultipleRegisters" THEN {dec[2][3]}
    ELSE IF op = "parse" /\ sess.decoder = "Request::try_from"
            /\ dec[2][1] = "ReadWriteMultipleRegisters" THEN {dec[2][5]}
    ELSE IF op = "parse" /\ sess.decoder = "Response::try_from"
            /\ dec[2][1] \in {"ReadInputRegisters", "ReadHoldingRegisters",
                              "ReadWriteMultipleRegisters"} THEN {dec[2][2]}
    ELSE {}

\* C17: every Data view from Data::from_words, Data::try_from or a parsed
\* Request / Response has data.len() = 2 * quantity, and get(i) is
\* Some(big-endian word of bytes 2i, 2i+1) for i < quantity and None
\* otherwise, without a panic.
C17_RegistersView ==
    \A v \in DataViews :
        /\ Len(v.data) = 2 * v.quantity
        /\ \A i \in Probes(v) :
            Data_get(v, i) = IF i < v.quantity
                             THEN Some(v.data[2 * i + 1] * 256 + v.data[2 * i + 2])
                             ELSE None

\* ------------------------------------------------------------------------
\* Properties of the function codes
\* ------------------------------------------------------------------------
\* the byte values of the named function codes (enum FunctionCode)
NamedCodes == {1, 2, 3, 4, 5, 6, 15, 16, 22, 23, 7, 8, 11, 12, 17}

\* C18: FunctionCode::new(b).value() = b for every byte b;
\* FunctionCode::new(f.value()) = f for every named code f; and
\* FunctionCode::new(Custom(c).value()) = Custom(c) iff c is not the byte
\* value of a named code.
C18_FunctionCodeRoundTrip ==
    /\ op = "FunctionCode::new" => FunctionCode_value(dec) = adu
    /\ op = "FunctionCode::value" =>
        /\ dec[2] \in 0..255
        /\ adu[1] # "Custom" => FunctionCode_new(dec[2]) = adu
        /\ adu[1] = "Custom" => ((FunctionCode_new(dec[2]) = adu) <=> (adu[2] \notin NamedCodes))

\* the value of Custom(3) was taken, and it classifies as a named code
C18_Witness ==
    /\ op = "FunctionCode::value"
    /\ adu = <<"Custom", 3>>
    /\ dec = <<"u8", 3>>
    /\ FunctionCode_new(dec[2]) = <<"ReadHoldingRegisters">>

\* C19: for every slice Request::try_from or Response::try_from decodes,
\* the function code of the result is FunctionCode::new of the first byte;
\* a Custom result never carries FunctionCode::Custom(c) with c the value of
\* a named code; and the two parsers classify the first byte identically.
C19_NamedVariantsPreferred ==
    Parsed =>
        /\ FunctionCode_from(dec[2]) = FunctionCode_new(At(rx, 0))
        /\ (dec[2][1] = "Custom" /\ dec[2][2][1] = "Custom") => dec[2][2][2] \notin NamedCodes
        /\ (IsOk(Request_try_from(rx)) /\ IsOk(Response_try_from(rx)))
            => FunctionCode_from(Request_try_from(rx)[2])
               = FunctionCode_from(Response_try_from(rx)[2])

\* ------------------------------------------------------------------------
\* Properties of the TCP frame extraction
\* ------------------------------------------------------------------------
\* the big-endian fields of the MBAP header in the buffer handed in
HeaderField(i) == frame[i + 1] * 256 + frame[i + 2]

\* C20: on a buffer of at least 7 + pdu_len bytes, tcp::extract_frame
\* returns Err(ProtocolNotModbus(pid)) when the protocol id is non-zero,
\* whatever the length field; otherwise Err(LengthMismatch(m_length,
\* pdu_len + 1)) when the length field is not pdu_len + 1; otherwise
\* Ok(Some) with the transaction id, the unit id and buf[7..7 + pdu_len].
C20_TcpFrameValidation ==
    (op = "tcp::extract_frame" /\ Len(frame) >= 7 + adu)
    => dec = IF HeaderField(2) # 0 THEN Err(<<"ProtocolNotModbus", HeaderField(2)>>)
             ELSE IF HeaderField(4) # adu + 1
             THEN Err(<<"LengthMismatch", HeaderField(4), adu + 1>>)
             ELSE Ok(Some([transaction_id |-> HeaderField(0),
                           unit_id |-> frame[7],
                           pdu |-> SubSeq(frame, 8, 7 + adu)]))

\* a frame with a foreign protocol id and a wrong length field was handed
\* in, and refused for its protocol id
C20_Witness ==
    /\ op = "tcp::extract_frame"
    /\ Len(frame) >= 7 + adu
    /\ HeaderField(2) # 0
    /\ HeaderField(4) # adu + 1
    /\ dec = Err(<<"ProtocolNotModbus", HeaderField(2)>>)

\* ------------------------------------------------------------------------
\* Properties of the framers on the receive buffer
\* ------------------------------------------------------------------------
\* the length prediction of the first pass of decode on the receive buffer
PredictedPduLen ==
    IF sess.transport = "rtu" THEN rtu_pdu_len(sess.kind, rx) ELSE tcp_pdu_len(sess.kind, rx)

\* the offset of the function code in an ADU
FnCodeOffset == IF sess.transport = "rtu" THEN 1 ELSE 7

\* C21: on every prefix of a frame the length prediction returns without
\* reading out of bounds: Ok(None) while the function code has not arrived,
\* and otherwise Ok(None), Ok(Some(len)) or Err(FnCode(c)) with c the
\* function code.
C21_LengthPredictionTotal ==
    (OnLink /\ Len(rx) > 0)
    => /\ ~IsPanic(PredictedPduLen)
       /\ Len(rx) <= FnCodeOffset => PredictedPduLen = Ok(None)
       /\ IsErr(PredictedPduLen) => PredictedPduLen = Err(<<"FnCode", At(rx, FnCodeOffset)>>)

\* the drop counter in the pass of decode that ends the call on rx
DropCnt ==
    IF sess.transport = "rtu" THEN rtu_decode_drop_cnt(sess.kind, rx)
    ELSE tcp_decode_drop_cnt(sess.kind, rx)

\* C22: rtu::decode and tcp::decode return on every buffer, and the drop
\* counter never exceeds min(buf.len() - 1, MAX_FRAME_LEN - 1): every pass
\* before the last one failed and added one to the counter, and the last
\* pass returned.
C22_BoundedResync ==
    (OnLink /\ Len(rx) > 0)
    => /\ IsOk(fr) \/ IsErr(fr)
       /\ DropCnt <= Len(rx) - 1
       /\ DropCnt <= MAX_FRAME_LEN - 1
       /\ \A e \in 0..(DropCnt - 1) :
            IsErr(IF sess.transport = "rtu" THEN rtu_decode_pass(sess.kind, rx, e)
                  ELSE tcp_decode_pass(sess.kind, rx, e))

DecodePass(e) ==
    IF sess.transport = "rtu" THEN rtu_decode_pass(sess.kind, rx, e)
    ELSE tcp_decode_pass(sess.kind, rx, e)

FramingErrors == {"FnCode", "Crc", "ProtocolNotModbus", "LengthMismatch"}

\* C23: decode returns Err only when framing failed at every offset 0..=255,
\* which needs more than 256 bytes; on a non-empty buffer of at most 256
\* bytes the result is Ok, and no frame starting at offset 256 or later is
\* returned.
C23_ErrorsAbsorbed ==
    (OnLink /\ Len(rx) > 0)
    => /\ IsErr(fr) => /\ Len(rx) > MAX_FRAME_LEN
                       /\ fr[2][1] \in FramingErrors
                       /\ \A e \in 0..(MAX_FRAME_LEN - 1) :
                            /\ IsErr(DecodePass(e))
                            /\ DecodePass(e)[2][1] \in FramingErrors
       /\ Len(rx) <= MAX_FRAME_LEN => IsOk(fr)
       /\ IsOkSome(fr) => FrameLocation(fr).start <= MAX_FRAME_LEN - 1

\* C24: with fewer than 2 bytes in the buffer, the empty buffer included,
\* the framer's decode and the facade's decode both return Ok(None).
C24_TooShortIsIncomplete ==
    (OnLink /\ fr # NotRun /\ Len(rx) < 2) => (fr = Ok(None) /\ dec = Ok(None))

\* the header and PDU bytes of the frame on the line: slave ++ pdu for RTU
\* (the frame without its CRC), mbap ++ pdu for TCP
AduBytes == IF sess.transport = "rtu" THEN Slice(frame, 0, Len(frame) - 2) ELSE frame

FramerPduLen ==
    IF sess.transport = "rtu" THEN rtu_pdu_len(sess.kind, AduBytes)
    ELSE tcp_pdu_len(sess.kind, AduBytes)

\* C25: for every request and response that the library encoded, the
\* framer's request_pdu_len / response_pdu_len on the header and PDU bytes
\* returns Ok(Some(n)) with n the pdu_len() of the encoded value (2 for an
\* exception response).
C25_FramerAgreesWithCodec ==
    (Delivered /\ Encoded_by_library)
    => FramerPduLen = Ok(Some(EncodedPduLen(sess.encoder, adu)))

\* Request::try_from was called on a 0x0F / 0x10 PDU that has its byte count
WriteMultipleParsed ==
    /\ op = "parse"
    /\ sess.decoder = "Request::try_from"
    /\ Len(rx) >= 6
    /\ rx[1] \in {15, 16}

\* C26: on a 0x0F / 0x10 request with byte count b = bytes[5],
\* Request::try_from returns Err(ByteCount(b)) iff bytes.len() < 6 + b, and
\* otherwise succeeds with a payload view whose quantity is the declared
\* quantity and whose data is exactly bytes[6..6 + b].
C26_ByteCountHandling ==
    WriteMultipleParsed
    => IF Len(rx) < 6 + rx[6]
       THEN dec = Err(<<"ByteCount", rx[6]>>)
       ELSE /\ IsOk(dec)
            /\ dec[2][3].quantity = read_u16(rx, 3)
            /\ dec[2][3].data = Slice(rx, 6, 6 + rx[6])

\* the payload view of an encoded PDU that has a byte-count field
ByteCountView ==
    IF sess.kind = "Request"
    THEN (IF adu[1] = "ReadWriteMultipleRegisters" THEN adu[5] ELSE adu[3])
    ELSE adu[2]

\* offset of the byte-count field in the PDU
ByteCountOffset ==
    IF sess.kind = "Request"
    THEN (IF adu[1] = "ReadWriteMultipleRegisters" THEN 9 ELSE 5)
    ELSE 1

\* 2 * qty for registers, packed_len for coils
ByteCountValue ==
    IF adu[1] \in {"ReadCoils", "ReadDiscreteInputs", "WriteMultipleCoils"}
    THEN Coils_packed_len(ByteCountView)
    ELSE 2 * Data_len(ByteCountView)

EncodedWithByteCount ==
    /\ op = "encode"
    /\ IF sess.kind = "Request"
       THEN adu[1] \in {"WriteMultipleCoils", "WriteMultipleRegisters",
                        "ReadWriteMultipleRegisters"}
       ELSE adu[1] \in {"ReadCoils", "ReadDiscreteInputs", "ReadInputRegisters",
                        "ReadHoldingRegisters", "ReadWriteMultipleRegisters"}

\* C27: encoding a PDU with a byte-count field never panics on arithmetic,
\* and when it returns Ok the byte-count byte is 2 * qty (registers) or
\* packed_len (coils), equals the number of payload bytes after it, and the
\* quantity field of a write request is qty.
C27_ByteCountWritten ==
    EncodedWithByteCount
    => /\ ~IsPanic(enc)
       /\ IsOk(enc) =>
            /\ At(frame, ByteCountOffset) = ByteCountValue
            /\ At(frame, ByteCountOffset) = Len(frame) - ByteCountOffset - 1
            /\ sess.kind = "Request" =>
                 read_u16(frame, ByteCountOffset - 2) = ByteCountView.quantity

\* the PDU of the ADU on the line, encoded on its own into pdu_len bytes
PduEncoding ==
    IF sess.kind = "Request"
    THEN RequestPdu_encode(adu.pdu, Buffer(EncodedPduLen(sess.encoder, adu)), FALSE).buf
    ELSE ResponsePdu_encode(adu.pdu, Buffer(EncodedPduLen(sess.encoder, adu)), FALSE).buf

\* what extract_frame returns on the encoded frame, given the PDU length
ExtractedFrame ==
    IF sess.transport = "rtu"
    THEN rtu_extract_frame(frame, EncodedPduLen(sess.encoder, adu))
    ELSE tcp_extract_frame(frame, EncodedPduLen(sess.encoder, adu))

\* C28: an ADU that encodes successfully with PDU length L gives L + 3 bytes
\* (RTU) or L + 7 bytes (TCP); extract_frame on these bytes with L returns
\* Ok(Some) with the header's slave, or transaction id and unit id, and with
\* the PDU encoding as pdu; the RTU trailer is crc16 of the first L + 1 bytes
\* written big-endian, the TCP protocol id is 0 and its length field L + 1.
C28_EncodedFramePassesCheck ==
    (OnLink /\ Encoded_by_library)
    => LET L == EncodedPduLen(sess.encoder, adu) IN
       IF sess.transport = "rtu"
       THEN /\ enc = Ok(L + 3)
            /\ Len(frame) = L + 3
            /\ read_u16(frame, L + 1) = crc16(Slice(frame, 0, L + 1))
            /\ ExtractedFrame = Ok(Some([slave |-> adu.hdr.slave, pdu |-> PduEncoding]))
       ELSE /\ enc = Ok(L + 7)
            /\ Len(frame) = L + 7
            /\ read_u16(frame, 2) = 0
            /\ read_u16(frame, 4) = L + 1
            /\ ExtractedFrame = Ok(Some([transaction_id |-> adu.hdr.transaction_id,
                                         unit_id |-> adu.hdr.unit_id,
                                         pdu |-> PduEncoding]))

C28_Witness ==
    /\ OnLink
    /\ Encoded_by_library
    /\ sess.encoder = "rtu::client::encode_request"
    /\ adu.pdu[1] = "WriteMultipleRegisters"
    /\ IsOkSome(ExtractedFrame)
    /\ Len(ExtractedFrame[2][2].pdu) = 8

\* ------------------------------------------------------------------------
\* The link as a stream: bytes keep arriving after the frame
\* ------------------------------------------------------------------------
\* number of bytes that arrive after the last byte of the frame
MaxTrail == 1

\* a byte of the next transmission arrives after the whole frame
Trail ==
    /\ sess # Idle
    /\ Len(frame) > 0
    /\ Len(rx) >= nnoise + Len(frame)
    /\ Len(rx) < nnoise + Len(frame) + MaxTrail
    /\ nnoise' = nnoise
    /\ \E b \in {16, frame[1]} : Arrive("trail", rx \o <<b>>)

NextStream ==
    \/ RtuClientSend
    \/ RtuServerSend
    \/ TcpClientSend
    \/ TcpServerSendRequest
    \/ TcpServerSend
    \/ PeerSend
    \/ Poll
    \/ Burst
    \/ Noise
    \/ Receive
    \/ Trail

SpecStream == Init /\ [][NextStream]_vars

\* bytes were appended to the receive buffer of the session
Appended ==
    /\ OnLink
    /\ sess' = sess
    /\ Len(rx') > Len(rx)
    /\ SubSeq(rx', 1, Len(rx)) = rx

\* C29: once decode has returned Ok(Some((frame, loc))) or Err(e) on the
\* buffer, it returns the same value on the buffer with any bytes appended;
\* only Ok(None) can change.
C29_StableUnderAppend ==
    [][(Appended /\ (IsOkSome(fr) \/ IsErr(fr))) => fr' = fr]_vars

\* C30: a frame that decode returns lies where its location says: the start
\* is at most 255, the size is the PDU length plus 3 (RTU) or 7 (TCP), the
\* frame ends inside the buffer, the RTU slave is the byte at the start, and
\* the PDU is the bytes of the buffer after the header (and before the CRC).
C30_FrameLocationExact ==
    (OnLink /\ IsOkSome(fr))
    => LET f == DecodedFrame(fr)
           loc == FrameLocation(fr)
       IN /\ loc.start <= 255
          /\ loc.start + loc.size <= Len(rx)
          /\ IF sess.transport = "rtu"
             THEN /\ loc.size = Len(f.pdu) + 3
                  /\ f.slave = At(rx, loc.start)
                  /\ f.pdu = Slice(rx, loc.start + 1, loc.start + loc.size - 2)
             ELSE /\ loc.size = Len(f.pdu) + 7
                  /\ f.pdu = Slice(rx, loc.start + 7, loc.start + loc.size)

C30_Witness ==
    /\ OnLink
    /\ sess.transport = "rtu"
    /\ IsOkSome(fr)
    /\ FrameLocation(fr).start = 255
    /\ FrameLocation(fr).start + FrameLocation(fr).size < Len(rx)
====
